---- MODULE Spec2Model ----
(***************************************************************************)
(* Cafe_API: a Flask service over one SQLite table of cafes.               *)
(*                                                                         *)
(* The state is the cafe table, the process-wide secret, and for the last  *)
(* request its handler, its response and what the handler did with the     *)
(* session.  Every handler of src/main.py is one action; the helpers of    *)
(* src/route_utils/route_helpers.py are operators.                         *)
(***************************************************************************)
EXTENDS Integers, Sequences, FiniteSets, TLC

VARIABLES
    SECRET_API, \* the secret read from the environment at start-up
    table,      \* the rows of the cafe table
    handler,    \* the handler that served the last request
    resp,       \* its response
    txn,        \* what became of its commit: none, committed, rolledback, failed
    session     \* its database session when it exits: unused, open, closed

vars == <<SECRET_API, table, handler, resp, txn, session>>

(***************************************************************************)
(* Values and bounds                                                       *)
(***************************************************************************)

\* Python's None: an absent request parameter, a NULL column, an unset variable.
None == "<None>"

\* Ids the model lets the table assign; an insert that would pass it is not taken.
MaxId == 3

\* The names requests use, in the store's ascending collation order.
NameOrder == <<"Cafe A", "Cafe B">>

Names == {NameOrder[i] : i \in 1..Len(NameOrder)}

FormFields ==
    {"name", "map_url", "img_url", "loc", "sockets", "toilet", "wifi", "calls",
     "seats", "coffee_price"}

\* A form carrying every creation field; each boolean field holds a non-empty string.
BaseForm(name) ==
    [name |-> name, map_url |-> "https://maps/x", img_url |-> "https://img/x",
     loc |-> "City A", sockets |-> "false", toilet |-> "1", wifi |-> "yes",
     calls |-> "true", seats |-> "50", coffee_price |-> "$3.50"]

\* Another value a client may send for a field.
AltValues ==
    [map_url |-> "", img_url |-> "", loc |-> "City B", sockets |-> "",
     toilet |-> "", wifi |-> "", calls |-> ""]

Without(form, k) == [x \in (DOMAIN form) \ {k} |-> form[x]]

\* The forms requests carry: a full form for each name and, for the first name,
\* the full form with one field left out or one field set to its other value.
Forms ==
    LET varied == BaseForm(NameOrder[1])
    IN  {BaseForm(n) : n \in Names}
        \cup {Without(varied, k) : k \in FormFields}
        \cup {[varied EXCEPT ![k] = AltValues[k]] : k \in DOMAIN AltValues}

Secrets == {None, "", "TopSecret"}

ApiKeys == {None, "", "TopSecret", "guess"}

NewPrices == {None, "", "4.50"}

SearchLocs == {None, "City A", "City B"}

\* Ids a request may name: those the table can hold and one it never holds.
CafeIds == 1..(MaxId + 1)

(***************************************************************************)
(* Python and Flask primitives                                             *)
(***************************************************************************)

\* bool(x) / "not x" of a str-or-None value.
Truthy(x) == x # None /\ x # ""

\* "x or default" of a str-or-None value.
OrElse(x, default) == IF Truthy(x) THEN x ELSE default

\* request.form.get(k), request.args.get(k).
FormGet(form, k) == IF k \in DOMAIN form THEN form[k] ELSE None

\* jsonify(...), status
Jsonify(status, body) == [status |-> status, json |-> TRUE, body |-> body]

\* abort(404, description=...) of db.get_or_404: werkzeug's NotFound page.
Abort404(description) ==
    [status |-> 404, json |-> FALSE, body |-> [description |-> description]]

\* An exception that leaves the handler: Flask answers 500.
Unhandled(exception) ==
    [status |-> 500, json |-> FALSE, body |-> [exception |-> exception]]

(***************************************************************************)
(* The Cafe table                                                          *)
(***************************************************************************)

\* The string columns declared nullable=False, in column order.  The four boolean
\* columns are nullable=False too; they hold BOOLEAN values in this model.
NotNullColumns_SeatsNullable == <<"name", "map_url", "img_url", "location">>

NotNullColumns == <<"name", "map_url", "img_url", "location", "seats">>

Ids(rows) == {c.id : c \in rows}

MaxOf(S) == CHOOSE m \in S : \A x \in S : x <= m

\* The Integer primary key of a new row: SQLite's rowid, one past the largest.
NextId(rows) == IF rows = {} THEN 1 ELSE MaxOf(Ids(rows)) + 1

\* The candidate as the row the INSERT writes.
Row(id, cafe) ==
    [id |-> id, name |-> cafe.name, map_url |-> cafe.map_url,
     img_url |-> cafe.img_url, location |-> cafe.location, seats |-> cafe.seats,
     has_toilet |-> cafe.has_toilet, has_wifi |-> cafe.has_wifi,
     has_sockets |-> cafe.has_sockets, can_take_calls |-> cafe.can_take_calls,
     coffee_price |-> cafe.coffee_price]

\* The first NOT NULL column of the candidate that holds NULL, or None.
FirstNullColumn(cafe) ==
    LET bad == {i \in 1..Len(NotNullColumns) : cafe[NotNullColumns[i]] = None}
    IN  IF bad = {} THEN None
        ELSE NotNullColumns[CHOOSE i \in bad : \A j \in bad : i <= j]

UniqueViolation_NotUnique(rows, cafe) == FALSE

\* unique=True on name: another row holds the candidate's name.
UniqueViolation(rows, cafe) == \E c \in rows : c.name = cafe.name

\* repr(error) as the pieces of text it is made of.
IntegrityErrorRepr(constraint, column) ==
    <<"IntegrityError", "(sqlite3.IntegrityError)", constraint, "cafe." \o column>>

OperationalErrorRepr ==
    <<"OperationalError", "(sqlite3.OperationalError)", "database is locked">>

\* What committing the INSERT raises: <<>> when it raises nothing.  A storage
\* fault refuses the write before any constraint is looked at; SQLite then checks
\* NOT NULL before UNIQUE.
InsertError(rows, cafe, fault) ==
    IF fault THEN OperationalErrorRepr
    ELSE IF FirstNullColumn(cafe) # None
         THEN IntegrityErrorRepr("NOT NULL constraint failed", FirstNullColumn(cafe))
    ELSE IF UniqueViolation(rows, cafe)
         THEN IntegrityErrorRepr("UNIQUE constraint failed", "name")
    ELSE <<>>

\* "needle in error_string"
Contains(error_string, needle) ==
    \E i \in 1..Len(error_string) : error_string[i] = needle

\* The rows in ascending order of name.
RECURSIVE OrderByName(_)
OrderByName(rows) ==
    IF rows = {} THEN <<>>
    ELSE LET rank(c) == CHOOSE i \in 1..Len(NameOrder) : NameOrder[i] = c.name
             first == CHOOSE c \in rows : \A d \in rows : rank(c) <= rank(d)
         IN  <<first>> \o OrderByName(rows \ {first})

\* Python's truth value of a query result: a list is falsy when empty, a
\* ScalarResult defines neither __bool__ nor __len__ and is always truthy.
ResultTruthy(result) ==
    IF result.type = "list" THEN Len(result.rows) > 0 ELSE TRUE

(***************************************************************************)
(* route_helpers.py                                                        *)
(***************************************************************************)

get_cafe_response(cafe) ==
    [name |-> cafe.name,
     map_url |-> OrElse(cafe.map_url, "N/A"),
     img_url |-> OrElse(cafe.img_url, "N/A"),
     location |-> cafe.location,
     seats |-> cafe.seats,
     has_toilet |-> cafe.has_toilet,
     has_wifi |-> cafe.has_wifi,
     has_sockets |-> cafe.has_sockets,
     can_take_calls |-> cafe.can_take_calls,
     coffee_price |-> cafe.coffee_price]

NotFoundBody == [error |-> ("Not Found" :> "No cafes found in the database")]

many_responses(all_cafes) ==
    IF ~ResultTruthy(all_cafes)
    THEN Jsonify(404, NotFoundBody)
    ELSE Jsonify(200,
             [cafes |-> [i \in 1..Len(all_cafes.rows) |->
                             get_cafe_response(all_cafes.rows[i])]])

new_cafe_check_LocationKey(form) ==
    [name |-> FormGet(form, "name"),
     map_url |-> FormGet(form, "map_url"),
     img_url |-> FormGet(form, "img_url"),
     location |-> FormGet(form, "location"),
     has_sockets |-> Truthy(FormGet(form, "sockets")),
     has_toilet |-> Truthy(FormGet(form, "toilet")),
     has_wifi |-> Truthy(FormGet(form, "wifi")),
     can_take_calls |-> Truthy(FormGet(form, "calls")),
     seats |-> FormGet(form, "seats"),
     coffee_price |-> FormGet(form, "coffee_price")]

new_cafe_check(form) ==
    [name |-> FormGet(form, "name"),
     map_url |-> FormGet(form, "map_url"),
     img_url |-> FormGet(form, "img_url"),
     location |-> FormGet(form, "loc"),
     has_sockets |-> Truthy(FormGet(form, "sockets")),
     has_toilet |-> Truthy(FormGet(form, "toilet")),
     has_wifi |-> Truthy(FormGet(form, "wifi")),
     can_take_calls |-> Truthy(FormGet(form, "calls")),
     seats |-> FormGet(form, "seats"),
     coffee_price |-> FormGet(form, "coffee_price")]

(***************************************************************************)
(* main.py: queries and the pieces of the handlers                         *)
(***************************************************************************)

\* db.session.execute(db.select(Cafe).order_by(Cafe.name)).scalars()
SelectAll(rows) == [type |-> "ScalarResult", rows |-> OrderByName(rows)]

\* Cafe.query.filter_by(location = loc).order_by(Cafe.name).all()
FilterByLocation(rows, loc) ==
    [type |-> "list", rows |-> OrderByName({c \in rows : c.location = loc})]

\* The except branch's choice of message.
ErrorMessage(error_string) ==
    IF Contains(error_string, "NOT NULL constraint failed")
    THEN "Missing input parameters"
    ELSE IF Contains(error_string, "UNIQUE constraint failed")
    THEN "Duplicate entry"
    ELSE "Error writing to database"

SuccessBody == [success |-> [success |-> "Successfully added the new cafe"]]

ErrorBody(message) == [error |-> [error |-> message]]

Authorized_KeyCompareOnly(api_key, secret) == ~(api_key # secret)

\* The negation of "not api_key or api_key != SECRET_API".
Authorized(api_key, secret) == ~(~Truthy(api_key) \/ api_key # secret)

SetPrice_AllRows(rows, cafe_id, new_price) ==
    {[c EXCEPT !.coffee_price = new_price] : c \in rows}

\* cafe_query.coffee_price = new_price, committed: the UPDATE of that one row.
SetPrice(rows, cafe_id, new_price) ==
    {IF c.id = cafe_id THEN [c EXCEPT !.coffee_price = new_price] ELSE c : c \in rows}

DeleteRow_ByName(rows, cafe) == {c \in rows : c.name = cafe.name}

\* db.session.delete(cafe_query), committed.
DeleteRow(rows, cafe) == rows \ {cafe}

NewPriceMissing_NoneOnly(new_price) == new_price = None

\* not request.args.get('new_price')
NewPriceMissing(new_price) == ~Truthy(new_price)

\* The responses of random_cafe: order_by(random()) puts any row first.
RandomResponses(rows) ==
    IF rows = {}
    THEN {Jsonify(404, NotFoundBody)}
    ELSE {Jsonify(200, [cafe |-> get_cafe_response(random_cafe)]) : random_cafe \in rows}

\* db.get_or_404(Cafe, cafe_id): the rows with that primary key, none or one.
Lookup(rows, cafe_id) == {c \in rows : c.id = cafe_id}

(***************************************************************************)
(* main.py: the handlers                                                   *)
(***************************************************************************)

Init ==
    /\ SECRET_API \in Secrets
    /\ table = {}
    /\ handler = "none"
    /\ resp = [status |-> 0, json |-> FALSE, body |-> [none |-> TRUE]]
    /\ txn = "none"
    /\ session = "unused"

\* GET /api/random
random_cafe ==
    /\ handler' = "random_cafe"
    /\ resp' \in RandomResponses(table)
    /\ txn' = "none"
    /\ session' = "open"
    /\ UNCHANGED <<SECRET_API, table>>

\* GET /api/all
all_cafes ==
    /\ handler' = "all_cafes"
    /\ resp' = many_responses(SelectAll(table))
    /\ txn' = "none"
    /\ session' = "open"
    /\ UNCHANGED <<SECRET_API, table>>

\* GET /api/search?loc=...
search_cafe(loc) ==
    /\ handler' = "search_cafe"
    /\ resp' = many_responses(FilterByLocation(table, loc))
    /\ txn' = "none"
    /\ session' = "open"
    /\ UNCHANGED <<SECRET_API, table>>

\* POST /api/add; fault: the store refuses the write
add_cafe(form, fault) ==
    LET new_cafe == new_cafe_check(form)
        error_string == InsertError(table, new_cafe, fault)
    IN  /\ error_string = <<>> => NextId(table) <= MaxId
        /\ handler' = "add_cafe"
        /\ IF error_string = <<>>
           THEN /\ table' = table \cup {Row(NextId(table), new_cafe)}
                /\ resp' = Jsonify(200, SuccessBody)
                /\ txn' = "committed"
           ELSE /\ table' = table
                /\ resp' = Jsonify(400, ErrorBody(ErrorMessage(error_string)))
                /\ txn' = "rolledback"
        /\ session' = "closed"
        /\ UNCHANGED SECRET_API

\* PATCH /api/update-price/<cafe_id>?new_price=...
update_price(cafe_id, new_price, fault) ==
    /\ handler' = "update_price"
    /\ IF NewPriceMissing(new_price)
       THEN /\ resp' = Jsonify(400, ErrorBody("coffee_price cannot be null."))
            /\ table' = table
            /\ txn' = "none"
            /\ session' = "unused"
       ELSE IF Lookup(table, cafe_id) = {}
       THEN /\ resp' = Abort404("This ID Does not Exist.")
            /\ table' = table
            /\ txn' = "none"
            /\ session' = "open"
       ELSE IF fault
       THEN /\ resp' = Jsonify(400, ErrorBody(ErrorMessage(OperationalErrorRepr)))
            /\ table' = table
            /\ txn' = "rolledback"
            /\ session' = "closed"
       ELSE /\ resp' = Jsonify(200, SuccessBody)
            /\ table' = SetPrice(table, cafe_id, new_price)
            /\ txn' = "committed"
            /\ session' = "closed"
    /\ UNCHANGED SECRET_API

\* DELETE /api/report-closed/<cafe_id>?api-key=...
delete_cafe(cafe_id, api_key, fault) ==
    /\ handler' = "delete_cafe"
    /\ IF ~Authorized(api_key, SECRET_API)
       THEN /\ resp' = Jsonify(403, ErrorBody("Not Authorized to perform this action."))
            /\ table' = table
            /\ txn' = "none"
            /\ session' = "unused"
       ELSE IF Lookup(table, cafe_id) = {}
       THEN /\ resp' = Abort404("This ID Does not Exist.")
            /\ table' = table
            /\ txn' = "none"
            /\ session' = "open"
       ELSE IF fault
       THEN /\ resp' = Unhandled("OperationalError")
            /\ table' = table
            /\ txn' = "failed"
            /\ session' = "open"
       ELSE /\ resp' = Jsonify(200, SuccessBody)
            /\ table' = DeleteRow(table, CHOOSE c \in Lookup(table, cafe_id) : TRUE)
            /\ txn' = "committed"
            /\ session' = "closed"
    /\ UNCHANGED SECRET_API

\* The requests, served by a store that never refuses a write.
Next ==
    \/ random_cafe
    \/ all_cafes
    \/ \E loc \in SearchLocs : search_cafe(loc)
    \/ \E form \in Forms : add_cafe(form, FALSE)
    \/ \E cafe_id \in CafeIds, new_price \in NewPrices :
           update_price(cafe_id, new_price, FALSE)
    \/ \E cafe_id \in CafeIds, api_key \in ApiKeys :
           delete_cafe(cafe_id, api_key, FALSE)

Spec == Init /\ [][Next]_vars

\* The requests, served by a store that may refuse any write.
NextFault ==
    \/ random_cafe
    \/ all_cafes
    \/ \E loc \in SearchLocs : search_cafe(loc)
    \/ \E form \in Forms, fault \in BOOLEAN : add_cafe(form, fault)
    \/ \E cafe_id \in CafeIds, new_price \in NewPrices, fault \in BOOLEAN :
           update_price(cafe_id, new_price, fault)
    \/ \E cafe_id \in CafeIds, api_key \in ApiKeys, fault \in BOOLEAN :
           delete_cafe(cafe_id, api_key, fault)

SpecFault == Init /\ [][NextFault]_vars

(***************************************************************************)
(* What the read endpoints return                                          *)
(***************************************************************************)

\* The cafe objects a response carries.
Returned(r) ==
    IF "cafes" \in DOMAIN r.body
    THEN {r.body.cafes[i] : i \in 1..Len(r.body.cafes)}
    ELSE IF "cafe" \in DOMAIN r.body THEN {r.body.cafe}
    ELSE {}

AllResponse(rows) == many_responses(SelectAll(rows))

SearchResponse(rows, loc) == many_responses(FilterByLocation(rows, loc))

\* Every response a read endpoint can give on these rows.
ReadResponses(rows) ==
    {AllResponse(rows)}
    \cup {SearchResponse(rows, loc) : loc \in SearchLocs}
    \cup RandomResponses(rows)

NamesIn(rows) == {c.name : c \in rows}

FullForm(form) == DOMAIN form = FormFields

(***************************************************************************)
(* C1                                                                      *)
(***************************************************************************)

Retrievable(c, rows) ==
    /\ AllResponse(rows).status = 200
    /\ get_cafe_response(c) \in Returned(AllResponse(rows))
    /\ SearchResponse(rows, c.location).status = 200
    /\ get_cafe_response(c) \in Returned(SearchResponse(rows, c.location))

\* C1: a POST /api/add whose form carries every creation field and a name no
\* stored record holds returns 200 and stores a record with the form's name and
\* location; and every stored record, for as long as it is stored, is among the
\* cafes of GET /api/all and of GET /api/search?loc=<its location>.
C1_AddThenRetrievable ==
    [][ /\ handler' = "add_cafe" =>
            \A form \in Forms :
               ( /\ add_cafe(form, FALSE)
                 /\ FullForm(form)
                 /\ form.name \notin NamesIn(table) )
               => /\ resp'.status = 200
                  /\ \E c \in table' \ table :
                         /\ c.name = form.name
                         /\ c.location = form.loc
                         /\ c.map_url = form.map_url
                         /\ c.img_url = form.img_url
                         /\ c.seats = form.seats
                         /\ c.coffee_price = form.coffee_price
        /\ \A c \in table' : Retrievable(c, table') ]_vars

C1_Witness ==
    /\ handler = "add_cafe"
    /\ resp.status = 200
    /\ Cardinality(table) = 2
    /\ \E c \in table : c.location = "City B"

(***************************************************************************)
(* C2                                                                      *)
(***************************************************************************)

UniqueNames(rows) == \A c, d \in rows : c.name = d.name => c = d

DuplicateEntry == Jsonify(400, ErrorBody("Duplicate entry"))

MissingInput == Jsonify(400, ErrorBody("Missing input parameters"))

\* The form keys behind the string columns the data model marks required.
RequiredStringKeys == {"name", "map_url", "img_url", "loc", "seats"}

\* The form keys behind every column the data model marks required.
RequiredKeys == RequiredStringKeys \cup {"toilet", "wifi", "sockets", "calls"}

\* C2 as stated: no two stored records share a name, and a POST /api/add whose
\* name is that of a stored record returns 400 "Duplicate entry" and leaves the
\* store as it was.
C2_Original ==
    [][ /\ UniqueNames(table')
        /\ handler' = "add_cafe" =>
               \A form \in Forms :
                   (add_cafe(form, FALSE) /\ FormGet(form, "name") \in NamesIn(table))
                   => (resp' = DuplicateEntry /\ table' = table) ]_vars

\* C2, amended: no two stored records share a name; a POST /api/add whose name
\* is that of a stored record returns 400 and leaves the store as it was, with
\* the message "Duplicate entry" when the form carries map_url, img_url, loc and
\* seats, and "Missing input parameters" when one of them is absent.
C2_DuplicateRejected ==
    [][ /\ UniqueNames(table')
        /\ handler' = "add_cafe" =>
               \A form \in Forms :
                   (add_cafe(form, FALSE) /\ FormGet(form, "name") \in NamesIn(table))
                   => /\ table' = table
                      /\ resp' = IF RequiredStringKeys \subseteq DOMAIN form
                                 THEN DuplicateEntry
                                 ELSE MissingInput ]_vars

C2_Witness ==
    /\ handler = "add_cafe"
    /\ resp = DuplicateEntry
    /\ Cardinality(table) = 2

(***************************************************************************)
(* C3                                                                      *)
(***************************************************************************)

\* C3 as stated: a POST /api/add whose form lacks a field behind any required
\* column returns 400 "Missing input parameters" and leaves the store as it was.
C3_Original ==
    [][ handler' = "add_cafe" =>
            \A form \in Forms :
                (add_cafe(form, FALSE) /\ ~(RequiredKeys \subseteq DOMAIN form))
                => (resp' = MissingInput /\ table' = table) ]_vars

\* C3, amended: a POST /api/add whose form lacks name, map_url, img_url, loc or
\* seats returns 400 "Missing input parameters" and leaves the store as it was;
\* a form that lacks only one of toilet, wifi, sockets, calls is not refused for
\* it: with a new name it returns 200 and stores the record with that flag false.
C3_MissingStringFieldRejected ==
    [][ handler' = "add_cafe" =>
            \A form \in Forms :
                add_cafe(form, FALSE) =>
                    /\ ~(RequiredStringKeys \subseteq DOMAIN form)
                       => (resp' = MissingInput /\ table' = table)
                    /\ ( /\ RequiredStringKeys \subseteq DOMAIN form
                         /\ ~(RequiredKeys \subseteq DOMAIN form)
                         /\ form.name \notin NamesIn(table) )
                       => /\ resp'.status = 200
                          /\ \E c \in table' \ table :
                                 /\ c.has_toilet = ("toilet" \in DOMAIN form)
                                 /\ c.has_wifi = ("wifi" \in DOMAIN form)
                                 /\ c.has_sockets = ("sockets" \in DOMAIN form)
                                 /\ c.can_take_calls = ("calls" \in DOMAIN form) ]_vars

C3_Witness ==
    /\ handler = "add_cafe"
    /\ resp = MissingInput
    /\ table # {}

(***************************************************************************)
(* C4                                                                      *)
(***************************************************************************)

NotAuthorized == [error |-> "Not Authorized to perform this action."]

\* C4: a DELETE /api/report-closed/<id> whose api-key is absent or differs from
\* the secret returns 403 with the error {"error": "Not Authorized to perform
\* this action."} for every id and every secret, set or not, and leaves the
\* store as it was; and a step that removes a record is a delete that presented
\* the secret.
C4_UnauthorizedDeleteRefused ==
    [][ /\ handler' = "delete_cafe" =>
               \A cafe_id \in CafeIds, api_key \in ApiKeys, fault \in BOOLEAN :
                   ( /\ delete_cafe(cafe_id, api_key, fault)
                     /\ (api_key = None \/ api_key # SECRET_API) )
                   => /\ resp'.status = 403
                      /\ resp'.json
                      /\ resp'.body.error = NotAuthorized
                      /\ table' = table
        /\ (\E c \in table : c.id \notin Ids(table')) =>
               \E cafe_id \in CafeIds, api_key \in ApiKeys :
                   /\ delete_cafe(cafe_id, api_key, FALSE)
                   /\ api_key # None
                   /\ api_key = SECRET_API ]_vars

C4_Witness ==
    /\ handler = "delete_cafe"
    /\ resp.status = 403
    /\ SECRET_API = None
    /\ table # {}

(***************************************************************************)
(* C5                                                                      *)
(***************************************************************************)

\* What C5 asks of a delete of cafe_id that passes the key check.
DeleteOutcome(cafe_id) ==
    IF \E c \in table : c.id = cafe_id
    THEN /\ resp'.status = 200
         /\ \E c \in table :
                /\ c.id = cafe_id
                /\ table' = table \ {c}
                /\ \A r \in ReadResponses(table') :
                       get_cafe_response(c) \notin Returned(r)
    ELSE /\ resp'.status = 404
         /\ table' = table

\* C5 as stated: a DELETE that presents the api-key equal to the secret returns
\* 200 when a record has that id, after which no read endpoint returns the record
\* and every other record is unchanged, and 404 with the store unchanged when
\* none has.
C5_Original ==
    [][ handler' = "delete_cafe" =>
            \A cafe_id \in CafeIds, api_key \in ApiKeys :
                ( /\ delete_cafe(cafe_id, api_key, FALSE)
                  /\ api_key # None
                  /\ api_key = SECRET_API )
                => DeleteOutcome(cafe_id) ]_vars

\* C5, amended: the same, for a DELETE that presents a non-empty api-key equal to
\* the secret; an empty api-key is refused with 403 even when the secret is the
\* empty string.
C5_AuthorizedDelete ==
    [][ handler' = "delete_cafe" =>
            \A cafe_id \in CafeIds, api_key \in ApiKeys :
                delete_cafe(cafe_id, api_key, FALSE) =>
                    /\ (api_key # None /\ api_key # "" /\ api_key = SECRET_API)
                       => DeleteOutcome(cafe_id)
                    /\ (api_key = "" /\ SECRET_API = "")
                       => (resp'.status = 403 /\ table' = table) ]_vars

C5_Witness ==
    /\ handler = "delete_cafe"
    /\ resp.status = 200
    /\ table # {}

(***************************************************************************)
(* C6                                                                      *)
(***************************************************************************)

\* C6: PATCH /api/update-price/<id> returns 400 with the store unchanged when
\* new_price is missing or empty, 404 with the store unchanged when new_price is
\* non-empty and no record has that id, and 200 when new_price is non-empty and
\* the record exists, after which the record and every read of it show
\* coffee_price equal to the raw new_price string.
C6_UpdatePrice ==
    [][ handler' = "update_price" =>
            \A cafe_id \in CafeIds, new_price \in NewPrices :
                update_price(cafe_id, new_price, FALSE) =>
                    IF new_price = None \/ new_price = ""
                    THEN resp'.status = 400 /\ table' = table
                    ELSE IF ~\E c \in table : c.id = cafe_id
                    THEN resp'.status = 404 /\ table' = table
                    ELSE /\ resp'.status = 200
                         /\ \E c \in table' :
                                /\ c.id = cafe_id
                                /\ c.coffee_price = new_price
                                /\ \E r \in ReadResponses(table') :
                                       get_cafe_response(c) \in Returned(r)
                                /\ \A r \in ReadResponses(table') :
                                       \A o \in Returned(r) :
                                           o.name = c.name
                                           => o.coffee_price = new_price ]_vars

C6_Witness ==
    /\ handler = "update_price"
    /\ resp.status = 200
    /\ \E c \in table : c.coffee_price = "4.50"

(***************************************************************************)
(* C7                                                                      *)
(***************************************************************************)

\* formatMany on the selected rows, as the claim has it.
FormatMany(rows) ==
    IF rows = <<>>
    THEN Jsonify(404, NotFoundBody)
    ELSE Jsonify(200, [cafes |-> [i \in 1..Len(rows) |-> get_cafe_response(rows[i])]])

\* C7: the response of GET /api/all and of GET /api/search is the Not-Found
\* payload with 404 whenever the selected rows are none, and 200 with the rows'
\* projections under cafes whenever there are some.
C7_EmptyIsNotFound ==
    /\ handler = "all_cafes" => resp = FormatMany(OrderByName(table))
    /\ handler = "search_cafe" =>
           \E loc \in SearchLocs :
               resp = FormatMany(OrderByName({c \in table : c.location = loc}))

(***************************************************************************)
(* C8                                                                      *)
(***************************************************************************)

\* C8: when add, update-price or delete has tried to commit, a failure of the
\* commit was caught and rolled back, the response is a JSON one, and the handler
\* has released the session.
C8_WriteFailuresHandled ==
    (handler \in {"add_cafe", "update_price", "delete_cafe"} /\ txn # "none")
    => /\ txn \in {"committed", "rolledback"}
       /\ resp.json
       /\ session = "closed"

(***************************************************************************)
(* C9                                                                      *)
(***************************************************************************)

\* The projection of every attribute of the data model.
AllFields(cafe) ==
    [id |-> cafe.id,
     name |-> cafe.name,
     map_url |-> IF cafe.map_url \in {None, ""} THEN "N/A" ELSE cafe.map_url,
     img_url |-> IF cafe.img_url \in {None, ""} THEN "N/A" ELSE cafe.img_url,
     location |-> cafe.location,
     seats |-> cafe.seats,
     has_toilet |-> cafe.has_toilet,
     has_wifi |-> cafe.has_wifi,
     has_sockets |-> cafe.has_sockets,
     can_take_calls |-> cafe.can_take_calls,
     coffee_price |-> cafe.coffee_price]

\* C9: every object a read endpoint returns carries each attribute of the data
\* model, id included, with the value of a stored record, map_url and img_url
\* replaced by "N/A" when empty.
C9_ProjectsAllFields ==
    handler \in {"random_cafe", "all_cafes", "search_cafe"}
    => \A o \in Returned(resp) : \E c \in table : o = AllFields(c)

(***************************************************************************)
(* C10                                                                     *)
(***************************************************************************)

SameButPrice(c, d) == [d EXCEPT !.coffee_price = c.coffee_price] = c

\* C10: on every step each stored record either stays, with its id and every
\* field but coffee_price as they were, or is the one record a delete removes;
\* random, all and search leave the store as it was; and a step that changes the
\* store is an add that puts in one record under an id no record had, an
\* update-price that changes coffee_price of the one record it names, or a
\* delete that removes the one record it names.
C10_Frame ==
    [][ /\ \A c \in table :
               \/ \E d \in table' : d.id = c.id /\ SameButPrice(c, d)
               \/ /\ handler' = "delete_cafe"
                  /\ table' = table \ {c}
        /\ handler' \in {"random_cafe", "all_cafes", "search_cafe"} => table' = table
        /\ table' # table =>
               \/ /\ \E form \in Forms, fault \in BOOLEAN : add_cafe(form, fault)
                  /\ \E n \in table' : n.id \notin Ids(table) /\ table' = table \cup {n}
               \/ \E cafe_id \in CafeIds, new_price \in NewPrices :
                      /\ update_price(cafe_id, new_price, FALSE)
                      /\ \E c \in table :
                             /\ c.id = cafe_id
                             /\ table' = (table \ {c})
                                    \cup {[c EXCEPT !.coffee_price = new_price]}
               \/ \E cafe_id \in CafeIds, api_key \in ApiKeys :
                      /\ delete_cafe(cafe_id, api_key, FALSE)
                      /\ \E c \in table : c.id = cafe_id /\ table' = table \ {c} ]_vars

C10_Witness ==
    /\ handler = "update_price"
    /\ resp.status = 200
    /\ Cardinality(table) = 2
    /\ \E c, d \in table : c.coffee_price = "4.50" /\ d.coffee_price # "4.50"

====
